---- MODULE Spec2Model ----
(***************************************************************************)
(* Model of the agent registry (app/services/legacy/agent_service.py) and  *)
(* of the workflow execution engine (app/services/task_service.py).        *)
(*                                                                         *)
(* Both services run on one asyncio event loop.  A registry operation has  *)
(* no suspension point (its only awaits are calls of other registry        *)
(* coroutines, which never suspend), so every registry operation is one    *)
(* atomic action.  An engine operation is cut at its awaits of the         *)
(* collaborators (agent creation, the agent's execution of a step, the     *)
(* advisor, asyncio.sleep).  Of the requests that can run at               *)
(* these points the model keeps those a run can tell apart from requests   *)
(* made before it: a delegation while an agent executes a step.            *)
(***************************************************************************)
EXTENDS Integers, Sequences, FiniteSets, Bags, TLC

(***************************************************************************)
(* Bounds of the model.                                                    *)
(***************************************************************************)
\* number of agent ids (uuid4 values) that can be handed out in one behaviour
MaxAgents == 3
\* largest max_child_agents an AgentCreate request carries in the model
MaxChildLimit == 1
\* largest number of dependencies of one step
MaxDeps == 1
\* number of steps a plan gets by delegation
MaxDynamicSteps == 1
\* number of times the engine's wait for a missing dependency outcome is followed
MaxPolls == 1
\* largest max_retries an advisor gives to retry_with_backoff
MaxRetries == 2

Workflows == {"W1", "W2"}
AgentIds == 1..MaxAgents
\* the max_child_agents values of AgentCreate requests
ChildLimits == {MaxChildLimit}
None == 0

VARIABLES
    agents,             \* AgentService._agents: id -> Agent
    agent_connections,  \* AgentService._agent_connections: id -> list of ids
    workflow_agents,    \* AgentService._workflow_agents: workflow -> list of ids
    next_id,            \* the next fresh uuid4
    last,               \* the last registry call: operation, arguments, outcome
    before_connect      \* agent_connections as it was before a Connect that added a
                        \* new pair, kept while the last call is that Connect or the
                        \* Disconnect of the same pair right after it; <<>> otherwise

VARIABLES
    workflows           \* WorkflowService._workflows: id -> [name, live]; live is
                        \* FALSE once the entry was deleted (a uuid4 is not drawn twice)

VARIABLES
    workflow_plans,     \* TaskService.workflow_plans: workflow id -> list of steps
    task_dependencies,  \* TaskService.task_dependencies: step id -> set of step ids
    run,                \* the execute_workflow[_with_delegation] call in progress
    dispatched          \* the steps the run handed to _execute_step[_with_delegation],
                        \* each with execution_results as it was at that moment

VARIABLES
    task_executions,    \* TaskService.task_executions: task id -> TaskExecution
    running_tasks,      \* TaskService.running_tasks: set of task ids
    data_loaded,        \* TaskService._data_loaded
    store,              \* the task_executions table of the durable store
    cancels             \* the cancel_task calls since the last execution request:
                        \* task id -> the value the call returned

VARIABLES
    graph               \* the WorkflowState of the LangGraph workflow and the node
                        \* that its graph runs next

\* what the LangGraph workflow leaves alone
nongraph == <<agents, agent_connections, workflow_agents, next_id, last, before_connect,
              workflows, workflow_plans, task_dependencies, run, dispatched,
              task_executions, running_tasks, data_loaded, store, cancels>>
\* what the engine leaves alone: the registry and the workflow service
regvars == <<agents, agent_connections, workflow_agents, next_id, last, before_connect,
             workflows, graph>>
taskvars == <<task_executions, running_tasks, data_loaded, store, cancels>>
\* what the registry leaves alone: the engine and the workflow service
engvars == <<workflow_plans, task_dependencies, run, dispatched,
             task_executions, running_tasks, data_loaded, store, cancels, workflows, graph>>
vars == <<agents, agent_connections, workflow_agents, next_id, last, before_connect,
          workflows, workflow_plans, task_dependencies, run, dispatched,
          task_executions, running_tasks, data_loaded, store, cancels, graph>>

(***************************************************************************)
(* Python list and dict helpers.                                           *)
(***************************************************************************)
Range(s) == {s[i] : i \in 1..Len(s)}

\* x in list
InList(x, s) == x \in Range(s)

\* list.remove(x): drops the first occurrence of x
RemoveFirst(s, x) ==
    IF ~InList(x, s) THEN s
    ELSE LET i == CHOOSE k \in 1..Len(s) : s[k] = x /\ \A j \in 1..(k-1) : s[j] # x
         IN  SubSeq(s, 1, i-1) \o SubSeq(s, i+1, Len(s))

(***************************************************************************)
(* A connection list is read and written only by membership tests, append, *)
(* remove and copy, none of which depends on the order of the elements, so *)
(* it is modelled by the bag of its elements.                              *)
(***************************************************************************)
\* x in list
InBag(x, l) == BagIn(x, l)

\* list.append(x)
BagAppend(l, x) == l (+) SetToBag({x})

\* list.remove(x), guarded in the code by "x in list": drops one occurrence
BagRemove(l, x) == l (-) SetToBag({x})

\* number of occurrences of x in a list
Count(l, x) == CopiesIn(x, l)

\* del d[k]
DictDel(d, k) == [x \in (DOMAIN d) \ {k} |-> d[x]]

\* d[k] = v
DictSet(d, k, v) == [x \in (DOMAIN d) \cup {k} |-> IF x = k THEN v ELSE d[x]]

\* d.get(k, []) for a dict of sequences
GetList(d, k) == IF k \in DOMAIN d THEN d[k] ELSE <<>>

\* d.get(k, []) for the dict of connection lists
GetConns(d, k) == IF k \in DOMAIN d THEN d[k] ELSE EmptyBag

(***************************************************************************)
(* The registry as a value: the three dicts of AgentService.               *)
(* An Agent's connected_agents field holds either the registry's own list  *)
(* object (aliased = TRUE, it then reads as agent_connections[id]) or a    *)
(* private list (aliased = FALSE, the value is in connected_agents).       *)
(***************************************************************************)
Registry(ags, conns, wfa) == [agents |-> ags, agent_connections |-> conns, workflow_agents |-> wfa]

Reg == Registry(agents, agent_connections, workflow_agents)

\* what reading agent.connected_agents yields in registry r
ConnectedAgentsOf(r, id) ==
    IF r.agents[id].aliased /\ id \in DOMAIN r.agent_connections
    THEN r.agent_connections[id]
    ELSE r.agents[id].connected_agents

\* agent.connected_agents = <the registry's list for id>
AliasConnected(agent) == [agent EXCEPT !.aliased = TRUE, !.connected_agents = EmptyBag]

\* agent.connected_agents = connections.copy()
CopyConnected(agent, conns) == [agent EXCEPT !.aliased = FALSE, !.connected_agents = conns]

NewAgent(id, wf, maxc) ==
    [id |-> id, workflow_id |-> wf, child_agents |-> <<>>, parent_agent_id |-> None,
     connected_agents |-> EmptyBag, aliased |-> FALSE, max_child_agents |-> maxc,
     status |-> "idle", status_description |-> "Agent created and ready to receive tasks"]

\* create_agent: stores the agent, appends it to the workflow's list and
\* gives it an empty connection list.  The workflow check never rejects:
\* workflow_service.get_workflow is a coroutine function and its un-awaited
\* result is truthy.
CreateAgentIn(r, id, wf, maxc) ==
    Registry(DictSet(r.agents, id, NewAgent(id, wf, maxc)),
             DictSet(r.agent_connections, id, EmptyBag),
             DictSet(r.workflow_agents, wf, Append(GetList(r.workflow_agents, wf), id)))

\* connect_agents adding the pair in one direction only
ConnectInOneWay(r, a, b) ==
    LET c0 == r.agent_connections
        c3 == IF InBag(b, c0[a]) THEN c0 ELSE [c0 EXCEPT ![a] = BagAppend(@, b)]
    IN  Registry([r.agents EXCEPT ![a] = AliasConnected(@), ![b] = AliasConnected(@)],
                 c3, r.workflow_agents)

\* connect_agents without its "if not already present" tests
ConnectInUnchecked(r, a, b) ==
    LET c0 == r.agent_connections
        c4 == [c0 EXCEPT ![a] = BagAppend(@, b), ![b] = BagAppend(@, a)]
    IN  Registry([r.agents EXCEPT ![a] = AliasConnected(@), ![b] = AliasConnected(@)],
                 c4, r.workflow_agents)

\* connect_agents past its checks: both directions are appended when absent,
\* then both agents' connected_agents are rebound to the registry lists
ConnectIn(r, a, b) ==
    LET c0 == r.agent_connections
        c1 == IF a \in DOMAIN c0 THEN c0 ELSE DictSet(c0, a, EmptyBag)
        c2 == IF b \in DOMAIN c1 THEN c1 ELSE DictSet(c1, b, EmptyBag)
        c3 == IF InBag(b, c2[a]) THEN c2 ELSE [c2 EXCEPT ![a] = BagAppend(@, b)]
        c4 == IF InBag(a, c3[b]) THEN c3 ELSE [c3 EXCEPT ![b] = BagAppend(@, a)]
    IN  Registry([r.agents EXCEPT ![a] = AliasConnected(@), ![b] = AliasConnected(@)],
                 c4, r.workflow_agents)

\* disconnect_agents removing the pair in one direction only
DisconnectInOneWay(r, a, b) ==
    LET c0 == r.agent_connections
        c1 == IF a \in DOMAIN c0 /\ InBag(b, c0[a]) THEN [c0 EXCEPT ![a] = BagRemove(@, b)] ELSE c0
    IN  Registry([r.agents EXCEPT ![a] = AliasConnected(@), ![b] = AliasConnected(@)],
                 c1, r.workflow_agents)

\* disconnect_agents past its checks: both directions are removed
DisconnectIn(r, a, b) ==
    LET c0 == r.agent_connections
        c1 == IF a \in DOMAIN c0 /\ InBag(b, c0[a]) THEN [c0 EXCEPT ![a] = BagRemove(@, b)] ELSE c0
        c2 == IF b \in DOMAIN c1 /\ InBag(a, c1[b]) THEN [c1 EXCEPT ![b] = BagRemove(@, a)] ELSE c1
        rebind(agent, id) == IF id \in DOMAIN c2 THEN AliasConnected(agent)
                             ELSE CopyConnected(agent, EmptyBag)
    IN  Registry([r.agents EXCEPT ![a] = rebind(@, a), ![b] = rebind(@, b)],
                 c2, r.workflow_agents)

\* delete_agent dropping the agent's own list but not its entries in the peers' lists
StripOwnListOnly(r, id) ==
    IF id \notin DOMAIN r.agent_connections THEN r
    ELSE Registry(r.agents, DictDel(r.agent_connections, id), r.workflow_agents)

\* the "Remove connections" block of delete_agent
StripConnections(r, id) ==
    IF id \notin DOMAIN r.agent_connections THEN r
    ELSE LET c0 == r.agent_connections
             hit == {o \in DOMAIN c0 : InBag(id, c0[o])}
             c1 == [o \in DOMAIN c0 |-> IF o \in hit THEN BagRemove(c0[o], id) ELSE c0[o]]
             a1 == [o \in DOMAIN r.agents |->
                       IF o \in hit THEN CopyConnected(r.agents[o], c1[o]) ELSE r.agents[o]]
         IN  Registry(a1, DictDel(c1, id), r.workflow_agents)

\* the "Remove from workflow" block of delete_agent
StripWorkflow(r, id) ==
    LET wf == r.agents[id].workflow_id
    IN  IF wf \in DOMAIN r.workflow_agents
        THEN [r EXCEPT !.workflow_agents[wf] = RemoveFirst(@, id)]
        ELSE r

RECURSIVE DeleteAgentIn(_, _)
RECURSIVE DeleteChildren(_, _)

\* for child_id in agent.child_agents: await self.delete_agent(child_id)
DeleteChildren(r, children) ==
    IF children = <<>> THEN r
    ELSE DeleteChildren(DeleteAgentIn(r, Head(children)), Tail(children))

\* delete_agent: workflow index, connections, children, then the agent itself;
\* an unknown id changes nothing
DeleteAgentIn(r, id) ==
    IF id \notin DOMAIN r.agents THEN r
    ELSE LET r1 == StripWorkflow(r, id)
             r2 == StripConnections(r1, id)
             r3 == DeleteChildren(r2, r.agents[id].child_agents)
         IN  [r3 EXCEPT !.agents = DictDel(r3.agents, id)]

(***************************************************************************)
(* Registry operations.  The history variable last keeps the arguments of  *)
(* a call that was not refused; rep tells that the call repeats, with the  *)
(* same arguments, the call right before it.                               *)
(***************************************************************************)
NoCall == [op |-> "init", ret |-> "ok", a |-> None, b |-> None, rep |-> FALSE,
           removed |-> {}, peers |-> {}, args |-> "",
           status |-> "", description |-> "", old_status |-> ""]

Call(op, a, b, ret, changed) ==
    LET rep == a # None /\ last.op = op /\ last.a = a /\ last.b = b /\ last.ret = "ok"
    IN  [op |-> op, ret |-> ret,
         a |-> IF changed \/ rep THEN a ELSE None,
         b |-> IF changed \/ rep THEN b ELSE None,
         rep |-> rep, removed |-> {}, peers |-> {}, args |-> "",
         status |-> "", description |-> "", old_status |-> ""]

\* the agent a and its transitive children, as the child_agents lists give them
RECURSIVE Subtree(_, _)
Subtree(ags, a) ==
    IF a \notin DOMAIN ags THEN {}
    ELSE {a} \cup UNION {Subtree(ags, c) : c \in Range(ags[a].child_agents)}

Install(r) ==
    /\ agents' = r.agents
    /\ agent_connections' = r.agent_connections
    /\ workflow_agents' = r.workflow_agents

Refused(op, ret) ==
    /\ last' = Call(op, None, None, ret, FALSE)
    /\ before_connect' = <<>>
    /\ UNCHANGED <<agents, agent_connections, workflow_agents, next_id>>

\* AgentService.create_agent
CreateAgent(wf, maxc) ==
    /\ UNCHANGED engvars
    /\ next_id <= MaxAgents
    /\ Install(CreateAgentIn(Reg, next_id, wf, maxc))
    /\ next_id' = next_id + 1
    /\ last' = Call("create_agent", next_id, None, "ok", TRUE)
    /\ before_connect' = <<>>

\* the limit check of spawn_child_agent with > for >=
ChildLimitOffByOne(parent) == Len(parent.child_agents) > parent.max_child_agents

\* the limit check of spawn_child_agent
ChildLimitReached(parent) == Len(parent.child_agents) >= parent.max_child_agents

\* spawn_child_agent without the append to the parent's child list
AddChildNowhere(r, p, c) == r

\* parent.child_agents.append(child_agent.id)
AddChild(r, p, c) == [r EXCEPT !.agents[p].child_agents = Append(@, c)]

\* AgentService.spawn_child_agent: the child is created in the parent's
\* workflow and appended to the parent's child_agents; parent_agent_id is set
\* on the AgentResponse that create_agent returned, not on the stored Agent
SpawnChild(p, maxc) ==
    /\ UNCHANGED engvars
    /\ IF p \notin DOMAIN agents
       THEN Refused("spawn_child_agent", "not_found")
       ELSE IF ChildLimitReached(agents[p])
       THEN Refused("spawn_child_agent", "limit_exceeded")
       ELSE /\ next_id <= MaxAgents
            /\ LET r1 == CreateAgentIn(Reg, next_id, agents[p].workflow_id, maxc)
               IN  Install(AddChild(r1, p, next_id))
            /\ next_id' = next_id + 1
            /\ last' = Call("spawn_child_agent", p, next_id, "ok", TRUE)
            /\ before_connect' = <<>>

\* disconnect_agents without its "actually connected" test
NeverUnconnected(conns, a, b) == FALSE

\* the pair is connected in neither direction
Unconnected(conns, a, b) == ~InBag(b, GetConns(conns, a)) /\ ~InBag(a, GetConns(conns, b))

\* what the caller of connect_agents passed: an id that is not in the registry
\* ("unknown"), one agent twice or agents of two workflows ("invalid"), or two
\* distinct agents of one workflow ("valid")
ConnectArgs(ags, a, b) ==
    IF a \notin DOMAIN ags \/ b \notin DOMAIN ags THEN "unknown"
    ELSE IF a = b \/ ags[a].workflow_id # ags[b].workflow_id THEN "invalid"
    ELSE "valid"

\* the checks of connect_agents without the test for a self-connection
ConnectChecksNoSelf(ags, a, b) ==
    IF a \notin DOMAIN ags \/ b \notin DOMAIN ags THEN "false"
    ELSE IF ags[a].workflow_id # ags[b].workflow_id THEN "connection_error"
    ELSE "ok"

\* the checks of connect_agents, in the order of the code: False for an unknown
\* id, AgentConnectionError for two workflows and then for a self-connection
ConnectChecks(ags, a, b) ==
    IF a \notin DOMAIN ags \/ b \notin DOMAIN ags THEN "false"
    ELSE IF ags[a].workflow_id # ags[b].workflow_id THEN "connection_error"
    ELSE IF a = b THEN "connection_error"
    ELSE "ok"

\* AgentService.connect_agents
Connect(a, b) ==
    /\ UNCHANGED engvars
    /\ LET ret == ConnectChecks(agents, a, b)
           given(call) == [call EXCEPT !.args = ConnectArgs(agents, a, b)]
       IN  IF ret # "ok"
           THEN /\ last' = given(Call("connect_agents", None, None, ret, FALSE))
                /\ before_connect' = <<>>
                /\ UNCHANGED <<agents, agent_connections, workflow_agents, next_id>>
           ELSE /\ Install(ConnectIn(Reg, a, b))
                /\ last' = given(Call("connect_agents", a, b, "ok", TRUE))
                /\ before_connect' = IF Unconnected(agent_connections, a, b)
                                     THEN agent_connections ELSE <<>>
                /\ UNCHANGED next_id

\* AgentService.disconnect_agents
Disconnect(a, b) ==
    /\ UNCHANGED engvars
    /\ IF a \notin DOMAIN agents \/ b \notin DOMAIN agents
       THEN Refused("disconnect_agents", "false")
       ELSE IF Unconnected(agent_connections, a, b)
       THEN Refused("disconnect_agents", "false")
       ELSE /\ Install(DisconnectIn(Reg, a, b))
            /\ last' = Call("disconnect_agents", a, b, "ok", TRUE)
            /\ before_connect' = IF last.op = "connect_agents" /\ last.a = a /\ last.b = b
                                 THEN before_connect ELSE <<>>
            /\ UNCHANGED next_id

\* AgentService.delete_agent
DeleteAgent(a) ==
    /\ UNCHANGED engvars
    /\ IF a \notin DOMAIN agents
       THEN Refused("delete_agent", "false")
       ELSE /\ Install(DeleteAgentIn(Reg, a))
            /\ last' = [Call("delete_agent", a, None, "ok", TRUE) EXCEPT
                            !.removed = Subtree(agents, a),
                            !.peers = {o \in DOMAIN agent_connections :
                                          \E d \in Subtree(agents, a) : InBag(d, agent_connections[o])}]
            /\ before_connect' = <<>>
            /\ UNCHANGED next_id

\* AgentStatusEnum
AgentStatuses == {"idle", "busy", "running", "paused", "error", "completed"}

\* the descriptions a caller passes in AgentStatusUpdate: "" stands for both
\* None and the empty string, which "if status_update.description:" treats alike
Descriptions == {"", "Waiting for the reviewer"}

\* default_descriptions of update_agent_status
default_descriptions ==
    [s \in {"idle", "running", "paused", "error", "completed"} |->
        CASE s = "idle" -> "Agent is idle and ready for tasks"
          [] s = "running" -> "Agent is actively processing tasks"
          [] s = "paused" -> "Agent is paused and not processing tasks"
          [] s = "error" -> "Agent encountered an error"
          [] s = "completed" -> "Agent has completed all assigned tasks"]

\* f"Agent status changed to {status_update.status.value}"
StatusChangedTo(s) ==
    CASE s = "idle" -> "Agent status changed to idle"
      [] s = "busy" -> "Agent status changed to busy"
      [] s = "running" -> "Agent status changed to running"
      [] s = "paused" -> "Agent status changed to paused"
      [] s = "error" -> "Agent status changed to error"
      [] s = "completed" -> "Agent status changed to completed"

\* update_agent_status keeping the description the agent had
KeepDescription(agent, s, description) == agent.status_description

\* the description update_agent_status stores: the caller's when it is
\* truthy, else default_descriptions.get(status, f"Agent status changed to ...")
NewDescription(agent, s, description) ==
    IF description # "" THEN description
    ELSE IF s \in DOMAIN default_descriptions THEN default_descriptions[s]
    ELSE StatusChangedTo(s)

\* AgentService.update_agent_status
UpdateStatus(a, s, description) ==
    /\ UNCHANGED engvars
    /\ IF a \notin DOMAIN agents
       THEN Refused("update_agent_status", "none")
       ELSE /\ agents' = [agents EXCEPT ![a].status = s,
                                        ![a].status_description = NewDescription(agents[a], s, description)]
            /\ last' = [Call("update_agent_status", a, None, "ok", TRUE) EXCEPT
                            !.status = s, !.description = description,
                            !.old_status = agents[a].status]
            /\ before_connect' = <<>>
            /\ UNCHANGED <<agent_connections, workflow_agents, next_id>>

\* broadcast_status_change setting the status on the connected agents too
StatusReceiversAll(conns, a) == {a} \cup BagToSet(GetConns(conns, a))

\* the agents whose status broadcast_status_change assigns
StatusReceivers(conns, a) == {a}

\* the connected ids that resolve to an agent: "if connected_agent:"
Notified(ags, conns, a) == {c \in BagToSet(GetConns(conns, a)) : c \in DOMAIN ags}

\* AgentService.broadcast_status_change: the agent takes the status; the
\* connected agents that resolve only have last_activity touched and an
\* event logged
BroadcastStatus(a, status) ==
    /\ UNCHANGED engvars
    /\ IF a \notin DOMAIN agents
       THEN Refused("broadcast_status_change", "false")
       ELSE /\ agents' = [o \in DOMAIN agents |->
                             IF o \in StatusReceivers(agent_connections, a)
                             THEN [agents[o] EXCEPT !.status = status]
                             ELSE agents[o]]
            /\ last' = [Call("broadcast_status_change", a, None, "ok", TRUE) EXCEPT
                            !.status = status,
                            !.old_status = agents[a].status,
                            !.peers = Notified(agents, agent_connections, a)]
            /\ before_connect' = <<>>
            /\ UNCHANGED <<agent_connections, workflow_agents, next_id>>

\* no LangGraph workflow has been created
NoGraph == [node |-> "none", level |-> "basic", models |-> FALSE,
            steps |-> 0, current_step |-> 0, errors |-> 0]

RegInit ==
    /\ agents = <<>>
    /\ agent_connections = <<>>
    /\ workflow_agents = <<>>
    /\ next_id = 1
    /\ last = NoCall
    /\ before_connect = <<>>
    /\ workflows = <<>>
    /\ graph = NoGraph

(***************************************************************************)
(* The workflow service (app/services/workflow_service.py) and its DELETE  *)
(* route.                                                                  *)
(***************************************************************************)
WorkflowNames == {"alpha", "beta"}

\* the entries of WorkflowService._workflows
LiveWorkflows == {w \in DOMAIN workflows : workflows[w].live}

\* WorkflowService._find_workflow_by_name
FindWorkflowByName(name) == {w \in LiveWorkflows : workflows[w].name = name}

\* a call of the workflow service that leaves the registry alone
WorkflowCall(op, ret, w) ==
    /\ last' = [Call(op, None, None, ret, FALSE) EXCEPT !.args = w]
    /\ before_connect' = <<>>
    /\ UNCHANGED <<agents, agent_connections, workflow_agents, next_id>>
    /\ UNCHANGED <<workflow_plans, task_dependencies, run, dispatched>>
    /\ UNCHANGED taskvars
    /\ UNCHANGED graph

\* WorkflowService.create_workflow: a name in use raises ValidationError
WorkflowServiceCreate(name) ==
    IF FindWorkflowByName(name) # {}
    THEN /\ WorkflowCall("create_workflow", "validation_error", "")
         /\ UNCHANGED workflows
    ELSE \E w \in Workflows \ DOMAIN workflows :
            /\ workflows' = DictSet(workflows, w, [name |-> name, live |-> TRUE])
            /\ WorkflowCall("create_workflow", "ok", w)

\* WorkflowService.delete_workflow: only the workflow's entry is removed
WorkflowServiceDelete(w) ==
    IF w \notin LiveWorkflows
    THEN /\ WorkflowCall("delete_workflow", "false", "")
         /\ UNCHANGED workflows
    ELSE /\ workflows' = [workflows EXCEPT ![w].live = FALSE]
         /\ WorkflowCall("delete_workflow", "ok", w)

\* DELETE /workflows/{workflow_id}: the route passes agent_service as a
\* second argument, which delete_workflow(self, workflow_id) does not take;
\* the TypeError is raised before the body runs and becomes HTTP 500
DeleteWorkflowRoute(w) ==
    /\ WorkflowCall("DELETE /workflows", "500", "")
    /\ UNCHANGED workflows

\* two workflows whose agents are created and connected, and deleted as
\* workflows
WorkflowNext ==
    \/ \E name \in WorkflowNames : WorkflowServiceCreate(name)
    \/ \E wf \in Workflows, maxc \in ChildLimits : CreateAgent(wf, maxc)
    \/ \E a \in AgentIds, b \in AgentIds : Connect(a, b)
    \/ \E w \in Workflows : WorkflowServiceDelete(w)
    \/ \E w \in Workflows : DeleteWorkflowRoute(w)

\* the agents whose status the callers report
StatusCallers == {1}

\* one workflow whose agents are created, the reporting agents are connected
\* to the others and report their status
StatusNext ==
    \/ \E maxc \in ChildLimits : CreateAgent("W1", maxc)
    \/ \E a \in StatusCallers, b \in AgentIds : Connect(a, b)
    \/ \E a \in StatusCallers, s \in AgentStatuses, d \in Descriptions : UpdateStatus(a, s, d)
    \/ \E a \in StatusCallers, s \in AgentStatuses : BroadcastStatus(a, s)

RegNext ==
    \/ \E wf \in Workflows, maxc \in ChildLimits : CreateAgent(wf, maxc)
    \/ \E p \in AgentIds, maxc \in ChildLimits : SpawnChild(p, maxc)
    \/ \E a \in AgentIds, b \in AgentIds : Connect(a, b)
    \/ \E a \in AgentIds, b \in AgentIds : Disconnect(a, b)
    \/ \E a \in AgentIds : DeleteAgent(a)

(***************************************************************************)
(* The LangGraph workflow (migration_backup, legacy/langgraph_service.py). *)
(* graph.node is the node that the compiled graph runs next; steps and     *)
(* errors are the lengths of state["steps"] and state["errors"].           *)
(***************************************************************************)
MaxGraphSteps == 2

\* IntelligenceLevel
GraphLevels == {"basic", "adaptive", "intelligent", "autonomous"}

\* _get_llm_for_intelligence_level returns a model: the level is not basic
\* and one of the models could be initialised
HasLLM(g) == g.level # "basic" /\ g.models

\* LangGraphService.create_workflow_from_request: the graph is compiled and
\* the initial state is stored
CreateGraph(level, models) ==
    /\ graph.node \in {"none", "END"}
    /\ graph' = [NoGraph EXCEPT !.node = "created", !.level = level, !.models = models]
    /\ UNCHANGED nongraph

\* LangGraphService.execute_workflow: astream starts the graph at START,
\* whose edge leads to the planning node
ExecuteGraph ==
    /\ graph.node = "created"
    /\ graph' = [graph EXCEPT !.node = "planning"]
    /\ UNCHANGED nongraph

\* planning_node: one echo step without a model or for a plan that is not
\* JSON, else the steps of the model's plan; the edge leads to execute
PlanningNode ==
    /\ graph.node = "planning"
    /\ \E n \in IF HasLLM(graph) THEN 0..MaxGraphSteps ELSE {1} :
          graph' = [graph EXCEPT !.steps = n, !.current_step = 0, !.node = "execute"]
    /\ UNCHANGED nongraph

\* execution_node: nothing past the last step; else the step is executed,
\* an exception is appended to errors, and current_step moves on
ExecutionNode ==
    /\ graph.node = "execute"
    /\ IF graph.current_step >= graph.steps
       THEN graph' = [graph EXCEPT !.node = "decision"]
       ELSE \E raised \in BOOLEAN :
               graph' = [graph EXCEPT !.errors = IF raised THEN @ + 1 ELSE @,
                                      !.current_step = @ + 1,
                                      !.node = "decision"]
    /\ UNCHANGED nongraph

\* decision_node, the condition of the edges that leave execute
Decision(g) ==
    IF g.current_step < g.steps THEN "execute"
    ELSE IF g.errors # 0 /\ g.level \in {"intelligent", "autonomous"} THEN "recovery"
    ELSE "complete"

DecisionNode ==
    /\ graph.node = "decision"
    /\ graph' = [graph EXCEPT !.node = Decision(graph)]
    /\ UNCHANGED nongraph

\* recovery_node: without a model the state is returned as it is; else the
\* recovery steps of a "retry" answer are appended to steps (none for an
\* answer "complete", one that is not JSON, or an empty list); errors is not
\* touched; the edge leads back to execute
RecoveryNode ==
    /\ graph.node = "recovery"
    /\ \E added \in IF HasLLM(graph) THEN 0..(MaxGraphSteps - graph.steps) ELSE {0} :
          graph' = [graph EXCEPT !.steps = @ + added, !.node = "execute"]
    /\ UNCHANGED nongraph

\* completion_node: the summary is stored; the edge leads to END
CompletionNode ==
    /\ graph.node = "complete"
    /\ graph' = [graph EXCEPT !.node = "END"]
    /\ UNCHANGED nongraph

\* the nodes that astream runs one after the other
GraphStep ==
    \/ PlanningNode
    \/ ExecutionNode
    \/ DecisionNode
    \/ RecoveryNode
    \/ CompletionNode

GraphNext ==
    \/ \E level \in GraphLevels, models \in BOOLEAN : CreateGraph(level, models)
    \/ ExecuteGraph
    \/ GraphStep

(***************************************************************************)
(* The workflow engine (app/services/task_service.py).                     *)
(*                                                                         *)
(* A step is the dict the planner or add_dynamic_step put in the plan:     *)
(* step_id, dependencies and, for a delegated step only, target_agent_id   *)
(* ("absent" stands for a dict without that key).  An entry of             *)
(* execution_results is modelled by its "status".                          *)
(***************************************************************************)
StepIds == {"S1", "S2", "S3"}
StepOrder == <<"S1", "S2", "S3">>
PlanLens == {2, 3}
Levels == {"basic", "intelligent"}
\* the step ids, dependencies and target agents of delegation requests
DynamicStepIds == {"D1", "S2"}
DynamicDeps == {{}, {"S1"}}
Targets == {"X"}
max_iterations == 100

\* a step of the planner has neither a target_agent_id nor a delegating_agent_id
Step(id, deps) ==
    [step_id |-> id, dependencies |-> deps, target_agent_id |-> "absent",
     delegating_agent_id |-> "absent"]

DepSets(id) == {D \in SUBSET (StepIds \ {id}) : Cardinality(D) <= MaxDeps}

\* the planner's outputs: steps S1..Sn, each depending on at most MaxDeps other
\* step ids, which need not be acyclic or present in the plan
Plans ==
    UNION {{[i \in 1..n |-> Step(StepOrder[i], d[i])] :
               d \in {e \in [1..n -> SUBSET StepIds] :
                         \A i \in 1..n : e[i] \in DepSets(StepOrder[i])}} : n \in PlanLens}

ShortPlans == {p \in Plans : Len(p) = Len(StepOrder) - 1}

StepIdsOf(steps) == {steps[i].step_id : i \in 1..Len(steps)}

\* task_dependencies.get(step_id, set())
GetDeps(td, id) == IF id \in DOMAIN td THEN td[id] ELSE {}

\* _create_task_dependencies: one entry per step id, shared by all workflows
RECURSIVE CreateTaskDependencies(_, _)
CreateTaskDependencies(td, steps) ==
    IF steps = <<>> THEN td
    ELSE CreateTaskDependencies(DictSet(td, Head(steps).step_id, Head(steps).dependencies),
                                Tail(steps))

\* the readiness test of _get_execution_order: every step of the plan that the
\* dependency index lists for this step id is already ordered
ReadyForOrder(step, steps, ordered, td) ==
    \A i \in 1..Len(steps) :
        steps[i].step_id \in GetDeps(td, step.step_id) => steps[i].step_id \in StepIdsOf(ordered)

\* the while loop of _get_execution_order; with no ready step the remaining
\* steps are appended in their original order
RECURSIVE OrderLoop(_, _, _, _)
OrderLoop(ordered, remaining, steps, td) ==
    IF remaining = <<>> THEN ordered
    ELSE LET IsReady(s) == ReadyForOrder(s, steps, ordered, td)
             NotReady(s) == ~IsReady(s)
             ready == SelectSeq(remaining, IsReady)
         IN  IF ready = <<>> THEN ordered \o remaining
             ELSE OrderLoop(ordered \o ready, SelectSeq(remaining, NotReady), steps, td)

GetExecutionOrder(steps, td) == OrderLoop(<<>>, steps, steps, td)

\* _wait_for_dependencies walks a set, in an order that the hash seed of the
\* process fixes: it returns when every dependency completed ("go"), raises at a
\* dependency whose outcome is not "completed" and sleeps at one without outcome
WaitOutcomes(deps, results) ==
    {o \in {"go", "raise", "poll"} :
        \/ o = "go" /\ \A d \in deps : d \in DOMAIN results /\ results[d] = "completed"
        \/ o = "raise" /\ \E d \in deps : d \in DOMAIN results /\ results[d] # "completed"
        \/ o = "poll" /\ \E d \in deps : d \notin DOMAIN results}

\* _execute_step builds TaskExecution(workflow_id=workflow_id, ...) first, and
\* workflow_id is neither a parameter, a local nor a global of it: every call
\* raises NameError before a record is stored or the agent is called
ExecuteStepOutcomes == {"NameError"}

\* the first except branch of execute_workflow_with_delegation's for loop:
\* the failure is recorded and the loop goes on with the next step
AfterStepFailure == "step"

\* _get_next_executable_steps without the test of the dependencies
ExecutableUnchecked(step, executed, results) ==
    step.step_id \notin executed

\* _get_next_executable_steps without the skip of the executed steps
ExecutableAgain(step, executed, results) ==
    \A d \in step.dependencies :
       d \in executed /\ d \in DOMAIN results /\ results[d] = "completed"

\* _get_next_executable_steps: not yet executed, and every dependency of the
\* step executed with status "completed"
Executable(step, executed, results) ==
    /\ step.step_id \notin executed
    /\ \A d \in step.dependencies :
          d \in executed /\ d \in DOMAIN results /\ results[d] = "completed"

GetNextExecutableSteps(all_steps, executed, results) ==
    LET Test(s) == Executable(s, executed, results)
    IN  SelectSeq(all_steps, Test)

\* the agent a step of execute_workflow_with_delegation runs on; "" is falsy
ExecutingAgent(step, step_agents) ==
    IF step.target_agent_id # "absent" THEN step.target_agent_id
    ELSE IF step.step_id \in step_agents THEN "agent" ELSE ""

\* the "status" of the dict that execute_workflow returns
WorkflowResult(results) ==
    IF \A k \in DOMAIN results : results[k] = "completed" THEN "completed" ELSE "failed"

\* the "status" of the dict that execute_workflow_with_delegation returns
DelegationResult(results) ==
    LET successful_steps == Cardinality({k \in DOMAIN results : results[k] = "completed"})
        total_steps == Cardinality(DOMAIN results)
    IN  IF successful_steps = total_steps THEN "completed" ELSE "completed_with_errors"

(***************************************************************************)
(* One call of execute_workflow or execute_workflow_with_delegation.       *)
(* run.pc is the place the coroutine is at; queue holds what its for loop  *)
(* still has to visit, the step at work first.                             *)
(***************************************************************************)
\* the position of _handle_step_failure in the advisor's answer: the strategies
\* the for loop has not visited yet, the ones it has run, the parameter
\* max_retries, the attempt of the retry loop, and what the step's agent does
\* with the task when it is called; NoRecovery outside _handle_step_failure
NoRecovery == [strategies |-> <<>>, tried |-> <<>>, max_retries |-> 0, attempt |-> 0, agent |-> ""]

IdleRun ==
    [kind |-> "none", workflow_id |-> "", level |-> "", pc |-> "idle", step_agents |-> {},
     queue |-> <<>>, execution_results |-> <<>>, executed_steps |-> {}, iteration |-> 0,
     polls |-> 0, status |-> "", recovery |-> NoRecovery]

CurrentSteps == workflow_plans[run.workflow_id]

DynamicCount ==
    Cardinality({<<w, i>> \in (DOMAIN workflow_plans) \X (1..(Len(StepOrder) + MaxDynamicSteps)) :
                    i <= Len(workflow_plans[w]) /\ workflow_plans[w][i].target_agent_id # "absent"})

Raised(r) == [r EXCEPT !.pc = "done", !.status = "raised"]

(***************************************************************************)
(* The task records.  _execute_step raises before it builds a TaskExecution, *)
(* so the records of a process are the ones _load_persisted_data finds in  *)
(* the store at the first request, and cancel_task is what changes them.   *)
(***************************************************************************)
StoredIds == {"S1", "S2"}
StoredStatuses == {"pending", "running", "completed"}
Rows == [workflow_id : Workflows, status : StoredStatuses]
Stores == UNION {[ids -> Rows] : ids \in SUBSET StoredIds}

\* persistence_service.get_tasks_by_status
GetTasksByStatus(st, status) == {id \in DOMAIN st : st[id].status = status}

\* _load_persisted_data: the running and the pending tasks of the store
LoadPersistedData(st) ==
    LET running == GetTasksByStatus(st, "running")
        pending == GetTasksByStatus(st, "pending")
    IN  [task_executions |-> [id \in running \cup pending |-> st[id]],
         running_tasks |-> running]

\* task_executions read from the store at every request
ReloadedExecutions == LoadPersistedData(store).task_executions

\* task_executions and running_tasks after _ensure_data_loaded
LoadedExecutions ==
    IF data_loaded THEN task_executions ELSE LoadPersistedData(store).task_executions

LoadedRunning ==
    IF data_loaded THEN running_tasks ELSE LoadPersistedData(store).running_tasks

\* _ensure_data_loaded, in a request that does nothing else to the tasks
EnsureDataLoaded ==
    /\ task_executions' = LoadedExecutions
    /\ running_tasks' = LoadedRunning
    /\ data_loaded' = TRUE
    /\ UNCHANGED store

\* the points where a run is suspended and another request can be served
Suspended == run.pc \in {"idle", "agents", "polling", "recovering", "retrying", "calling"}

\* a test that lets every task with a record be cancelled
CancellableKnown(id) == id \in DOMAIN LoadedExecutions

\* if task_id in self.running_tasks
Cancellable(id) == id \in LoadedRunning

\* what a save in the durable store does: it succeeds, or it raises
SaveOutcomes == {"saved", "failed"}

\* _persist_* without its try/except: the store's error reaches the caller
PersistPropagates(outcome) == IF outcome = "saved" THEN "returned" ELSE "raised"

\* _persist_task_execution and _persist_workflow_plan: the save is awaited in
\* a try whose except logs the error, so the method returns either way
Persist(outcome) == "returned"

\* cancel_task with the outcome of the save that it asks for
CancelTaskSaving(id, outcome) ==
    /\ Suspended
    /\ data_loaded' = TRUE
    /\ IF Cancellable(id)
       THEN /\ running_tasks' = LoadedRunning \ {id}
            /\ IF id \in DOMAIN LoadedExecutions
               THEN LET execution == [LoadedExecutions[id] EXCEPT !.status = "cancelled"]
                    IN  /\ task_executions' = DictSet(LoadedExecutions, id, execution)
                        /\ store' = IF outcome = "saved" THEN DictSet(store, id, execution) ELSE store
                        \* return True, reached when the persist call returns
                        /\ cancels' = DictSet(cancels, id, Persist(outcome) = "returned")
               ELSE /\ task_executions' = LoadedExecutions
                    /\ cancels' = DictSet(cancels, id, TRUE)
                    /\ UNCHANGED store
       ELSE /\ task_executions' = LoadedExecutions
            /\ running_tasks' = LoadedRunning
            /\ cancels' = DictSet(cancels, id, FALSE)
            /\ UNCHANGED store
    /\ UNCHANGED <<workflow_plans, task_dependencies, run, dispatched>>
    /\ UNCHANGED regvars

\* cancel_task
CancelTask(id) ==
    \E outcome \in SaveOutcomes : CancelTaskSaving(id, outcome)

\* create_workflow_from_request once the planner has answered, with the
\* outcome of the save it asks for: the plan is stored, save_workflow_plan is
\* awaited through _persist_workflow_plan, and the dependencies of the steps
\* are written into the shared index once that call has returned
CreateWorkflowSaving(w, plan, outcome) ==
    /\ run.pc = "idle"
    /\ w \notin DOMAIN workflow_plans
    /\ workflow_plans' = DictSet(workflow_plans, w, plan)
    /\ task_dependencies' = IF Persist(outcome) = "returned"
                            THEN CreateTaskDependencies(task_dependencies, plan)
                            ELSE task_dependencies
    /\ UNCHANGED <<run, dispatched>>
    /\ UNCHANGED cancels
    /\ EnsureDataLoaded
    /\ UNCHANGED regvars

\* create_workflow_from_request
CreateWorkflow(w, plan) ==
    \E outcome \in SaveOutcomes : CreateWorkflowSaving(w, plan, outcome)

\* the agent that asks for a delegation, named by the step it is executing; a
\* request outside a run comes from an agent that executes no step
DelegatingAgent ==
    IF run.pc = "calling" THEN Head(run.queue).step_id ELSE "none"

\* add_dynamic_step: the step is appended and indexed; nothing is checked but
\* the workflow id
AddDynamicStep(w, id, deps, target) ==
    /\ run.pc \in {"idle", "calling"}
    /\ DynamicCount < MaxDynamicSteps
    /\ IF w \notin DOMAIN workflow_plans
       THEN UNCHANGED <<workflow_plans, task_dependencies>>
       ELSE /\ workflow_plans' = [workflow_plans EXCEPT ![w] =
                                     Append(@, [Step(id, deps) EXCEPT
                                                   !.target_agent_id = target,
                                                   !.delegating_agent_id = DelegatingAgent])]
            /\ task_dependencies' = DictSet(task_dependencies, id, deps)
    /\ UNCHANGED <<run, dispatched>>
    /\ UNCHANGED cancels
    /\ EnsureDataLoaded
    /\ UNCHANGED regvars

\* the entry of both execution methods, to their await of the agent creation:
\* an unknown workflow id raises ValueError
Enter(kind, w, level) ==
    IF w \notin DOMAIN workflow_plans
    THEN [IdleRun EXCEPT !.kind = kind, !.workflow_id = w, !.pc = "done", !.status = "not_found"]
    ELSE [IdleRun EXCEPT !.kind = kind, !.workflow_id = w, !.level = level, !.pc = "agents"]

ExecuteWorkflow(w, level) ==
    /\ run.pc = "idle"
    /\ run' = Enter("execute_workflow", w, level)
    /\ dispatched' = <<>>
    /\ UNCHANGED <<workflow_plans, task_dependencies>>
    /\ cancels' = <<>>
    /\ EnsureDataLoaded
    /\ UNCHANGED regvars

\* the level is only handed on to the agents
ExecuteWorkflowWithDelegation(w, level) ==
    /\ run.pc = "idle"
    /\ run' = Enter("with_delegation", w, level)
    /\ dispatched' = <<>>
    /\ UNCHANGED <<workflow_plans, task_dependencies>>
    /\ cancels' = <<>>
    /\ EnsureDataLoaded
    /\ UNCHANGED regvars

Advance(r) ==
    /\ run' = r
    /\ UNCHANGED <<workflow_plans, task_dependencies, dispatched>>
    /\ UNCHANGED taskvars
    /\ UNCHANGED regvars

\* the status of the TaskExecution of a task id, "none" without a record
RecordStatus(id) ==
    IF id \in DOMAIN task_executions THEN task_executions[id].status ELSE "none"

Dispatch(r) ==
    /\ run' = r
    /\ dispatched' = Append(dispatched, [step |-> Head(run.queue),
                                         results |-> run.execution_results,
                                         record |-> RecordStatus(Head(run.queue).step_id),
                                         result |-> ""])
    /\ UNCHANGED <<workflow_plans, task_dependencies>>
    /\ UNCHANGED taskvars
    /\ UNCHANGED regvars

\* _create_agents_for_workflow returns one agent per step id, or the agent
\* service raises
CreateAgentsForWorkflow ==
    /\ run.pc = "agents"
    /\ \E o \in {"ok", "raise"} :
          Advance(IF o = "raise" THEN Raised(run)
                ELSE [run EXCEPT !.step_agents = StepIdsOf(CurrentSteps),
                                 !.pc = IF run.kind = "execute_workflow" THEN "order" ELSE "loop"])

(***************************************************************************)
(* execute_workflow                                                        *)
(***************************************************************************)
RecoveryLevels == {"adaptive", "intelligent", "autonomous"}

\* the for loop of execute_workflow goes on to the next step of the order
NextInOrder(r) ==
    [r EXCEPT !.queue = Tail(@), !.pc = IF Tail(r.queue) = <<>> THEN "return" ELSE "wait"]

\* execution_results[step_id] = {"status": "failed", ...}; break
FailWorkflow(r) ==
    [r EXCEPT !.execution_results = DictSet(@, Head(r.queue).step_id, "failed"),
              !.pc = "return"]

\* for step in self._get_execution_order(workflow_plan.steps)
GetOrder ==
    /\ run.pc = "order"
    /\ LET order == GetExecutionOrder(CurrentSteps, task_dependencies)
       IN  Advance([run EXCEPT !.queue = order,
                               !.pc = IF order = <<>> THEN "return" ELSE "wait"])

\* await self._wait_for_dependencies(step_id, execution_results)
WaitForDependencies ==
    /\ run.pc = "wait"
    /\ \E o \in WaitOutcomes(GetDeps(task_dependencies, Head(run.queue).step_id),
                             run.execution_results) :
          Advance([run EXCEPT !.pc = CASE o = "go" -> "exec"
                                       [] o = "raise" -> "except"
                                       [] o = "poll" -> "polling"])

\* asyncio.sleep(0.1) returned, and the while loop tests its condition again
Poll ==
    /\ run.pc = "polling"
    /\ Advance([run EXCEPT !.polls = IF @ < MaxPolls THEN @ + 1 ELSE @,
                           !.pc = "testing"])

\* while dep_id not in execution_results: the awaited dependency still has no
\* outcome, since only this coroutine writes execution_results, and the loop
\* sleeps again
Retest ==
    /\ run.pc = "testing"
    /\ Advance([run EXCEPT !.pc = "polling"])

\* result = await self._execute_step(step, step_agents[step_id], level)
ExecuteStep ==
    /\ run.pc = "exec"
    /\ IF Head(run.queue).step_id \notin run.step_agents
       THEN Advance([run EXCEPT !.pc = "except"])
       ELSE \E o \in ExecuteStepOutcomes :
               Dispatch(IF o = "completed"
                        THEN NextInOrder([run EXCEPT !.execution_results =
                                             DictSet(@, Head(run.queue).step_id, "completed")])
                        ELSE [run EXCEPT !.pc = "except"])

\* the except branch of the for loop, to its await of the advisor
StepFailed ==
    /\ run.pc = "except"
    /\ Advance(IF run.level \in RecoveryLevels
               THEN [run EXCEPT !.pc = "recovering"]
               ELSE FailWorkflow(run))

\* the strategies an advisor names; _handle_step_failure knows the first two
Strategies == {"retry_with_backoff", "modify_and_retry", "escalate"}

Applicable(strategy) == strategy \in {"retry_with_backoff", "modify_and_retry"}

StrategyLists == {<<>>} \cup {<<a>> : a \in Strategies} \cup {<<a, b>> : a \in Strategies, b \in Strategies}

\* what dynamic_inference gives _handle_step_failure: an exception, content
\* that is not JSON (a service without advisor returns None the same way), or
\* recovery_strategies with their parameters; agent is
\* what the agent of the step does with the task when it is called
Answer(kind, strategies, max_retries, agent) ==
    [kind |-> kind, strategies |-> strategies, max_retries |-> max_retries, agent |-> agent]

AdvisorAnswers ==
    {Answer("raise", <<>>, 0, ""), Answer("bad_json", <<>>, 0, "")}
    \cup {Answer("strategies", l, n, g) :
             l \in StrategyLists, n \in 0..MaxRetries, g \in {"succeeds", "fails"}}

\* an advisor out of reach, one that answers with prose, and one that
\* always advises a single retry
TerseAnswers ==
    {Answer("raise", <<>>, 0, ""), Answer("bad_json", <<>>, 0, ""),
     Answer("strategies", <<"retry_with_backoff">>, 1, "fails")}

\* the places of a run inside _handle_step_failure
RecoveryPcs == {"recovering", "strategies", "retrying"}

\* recovery_result = await self._handle_step_failure(...): an exception
\* leaves execute_workflow, None records the failure and breaks, and a result
\* becomes the outcome of the step and the loop continues
RecoveryReturns(r, result) ==
    CASE result = "raise" -> Raised(r)
      [] result = "none" -> FailWorkflow(r)
      [] OTHER -> NextInOrder([r EXCEPT !.execution_results =
                                  DictSet(@, Head(r.queue).step_id, result)])

\* _handle_step_failure returns None
GiveUp(r) == RecoveryReturns([r EXCEPT !.recovery = NoRecovery], "none")

\* dynamic_inference returned or raised: an exception leaves execute_workflow,
\* content that json.loads rejects gives None, and a list of strategies is
\* handed to the for loop
AdvisorAnswered(answers) ==
    /\ run.pc = "recovering"
    /\ \E answer \in answers :
          Advance(CASE answer.kind = "raise" -> RecoveryReturns(run, "raise")
                    [] answer.kind = "bad_json" -> GiveUp(run)
                    [] OTHER -> [run EXCEPT !.pc = "strategies",
                                            !.recovery = [NoRecovery EXCEPT
                                                !.strategies = answer.strategies,
                                                !.max_retries = answer.max_retries,
                                                !.agent = answer.agent]])

\* one round of "for strategy in recovery_strategies": a strategy of another
\* name is passed over; retry_with_backoff enters its loop, which returns None
\* at once when max_retries is 0; modify_and_retry evaluates step["agent_id"]
\* on a step that has no such key, and the KeyError is caught by the except
\* that returns None; an exhausted list returns None
NextStrategy ==
    /\ run.pc = "strategies"
    /\ LET rec == run.recovery
       IN  Advance(
             IF rec.strategies = <<>> THEN GiveUp(run)
             ELSE LET strategy == Head(rec.strategies)
                      now == [rec EXCEPT !.strategies = Tail(@),
                                         !.tried = IF Applicable(strategy)
                                                   THEN Append(@, strategy) ELSE @]
                  IN  CASE strategy = "retry_with_backoff" ->
                              IF rec.max_retries = 0 THEN GiveUp(run)
                              ELSE [run EXCEPT !.pc = "retrying", !.recovery = now]
                        [] strategy = "modify_and_retry" -> GiveUp(run)
                        [] OTHER -> [run EXCEPT !.recovery = now])

\* asyncio.sleep(backoff_factor ** attempt) returned: step["agent_id"] raises
\* KeyError before _execute_step is called; the last attempt re-raises it into
\* the except of _handle_step_failure, which returns None
RetryAttempt ==
    /\ run.pc = "retrying"
    /\ Advance(IF run.recovery.attempt = run.recovery.max_retries - 1
               THEN GiveUp(run)
               ELSE [run EXCEPT !.recovery.attempt = @ + 1])

(***************************************************************************)
(* execute_workflow_with_delegation                                        *)
(***************************************************************************)
\* execution_results[step_id] = ...; executed_steps.add(step_id); next step
Record(r, status) ==
    [r EXCEPT !.execution_results = DictSet(@, Head(r.queue).step_id, status),
              !.executed_steps = @ \cup {Head(r.queue).step_id},
              !.queue = Tail(@),
              !.pc = IF status = "completed" THEN "step" ELSE AfterStepFailure]

\* the head of the while loop without the count of the iterations
LoopUncounted ==
    /\ run.pc = "loop"
    /\ LET executable_steps == GetNextExecutableSteps(CurrentSteps, run.executed_steps,
                                                      run.execution_results)
       IN  Advance([run EXCEPT !.queue = executable_steps,
                               !.pc = IF executable_steps = <<>> THEN "return" ELSE "step"])

\* the head of the while loop
Loop ==
    /\ run.pc = "loop"
    /\ LET executable_steps == GetNextExecutableSteps(CurrentSteps, run.executed_steps,
                                                      run.execution_results)
       IN  Advance(IF run.iteration < max_iterations
                   THEN [run EXCEPT !.iteration = @ + 1,
                                    !.queue = executable_steps,
                                    !.pc = IF executable_steps = <<>> THEN "return" ELSE "step"]
                   ELSE [run EXCEPT !.pc = "return"])

\* one turn of "for step in executable_steps", to the await of the agent
DispatchStep ==
    /\ run.pc = "step"
    /\ IF run.queue = <<>>
       THEN Advance([run EXCEPT !.pc = "loop"])
       ELSE IF ExecutingAgent(Head(run.queue), run.step_agents) = ""
       THEN Advance(Record(run, "failed"))
       ELSE Dispatch([run EXCEPT !.pc = "calling"])

\* _execute_step_with_delegation writing the outcome into the step's record
ExecutionsOverwritten(execs, id, status) ==
    IF id \in DOMAIN execs THEN [execs EXCEPT ![id].status = status] ELSE execs

\* task_executions after _execute_step_with_delegation: the method neither
\* creates nor updates a TaskExecution
ExecutionsAfterCall(execs, id, status) == execs

\* how a call of the agent ends: it returns a result with status success, it
\* returns a result with status error (an unknown action, an exception that
\* the agent reports in its result), or it raises
AgentResults == {"success", "error", "raised"}

\* the results of an agent whose actions all succeed unless the call raises
PlainResults == {"success", "raised"}

\* the outcome of the step: _execute_step_with_delegation answers completed
\* whenever the call returns, the except of the main loop records failed
StepOutcome(result) == IF result = "raised" THEN "failed" ELSE "completed"

\* agent_service.execute_agent_task_with_delegation returned or raised, with
\* one of the given results
AgentCallEnds(results) ==
    /\ run.pc = "calling"
    /\ \E result \in results :
          /\ run' = Record(run, StepOutcome(result))
          /\ task_executions' = ExecutionsAfterCall(task_executions,
                                                    Head(run.queue).step_id, StepOutcome(result))
          /\ dispatched' = [dispatched EXCEPT ![Len(dispatched)].result = result]
    /\ UNCHANGED <<workflow_plans, task_dependencies>>
    /\ UNCHANGED <<running_tasks, data_loaded, store, cancels>>
    /\ UNCHANGED regvars

\* the call of an agent whose actions succeed returned or raised
AgentReturns == AgentCallEnds(PlainResults)

\* the return statement of either method
Return ==
    /\ run.pc = "return"
    /\ Advance([run EXCEPT !.pc = "done",
                           !.status = IF run.kind = "execute_workflow"
                                      THEN WorkflowResult(run.execution_results)
                                      ELSE DelegationResult(run.execution_results)])

\* the caller has the result; another execution can be requested
EndRun ==
    /\ run.pc = "done"
    /\ run' = IdleRun
    /\ dispatched' = <<>>
    /\ UNCHANGED <<workflow_plans, task_dependencies>>
    /\ UNCHANGED taskvars
    /\ UNCHANGED regvars

EngInit ==
    /\ workflow_plans = <<>>
    /\ task_dependencies = <<>>
    /\ run = IdleRun
    /\ dispatched = <<>>

\* a new TaskService over the store st
TaskInit(st) ==
    /\ task_executions = <<>>
    /\ running_tasks = {}
    /\ data_loaded = FALSE
    /\ store = st
    /\ cancels = <<>>

\* the requests of the planner for the workflows ws
PlanRequests(ws, plans) ==
    \E w \in ws, plan \in plans : CreateWorkflow(w, plan)

\* the delegation requests for the workflows ws
DelegationRequests(ws) ==
    \E w \in ws, id \in DynamicStepIds, target \in Targets :
       \E deps \in DynamicDeps : AddDynamicStep(w, id, deps, target)

\* the execution requests for the workflows ws and the steps of the run, with
\* the answers the advisor can give
AdvisedRunSteps(ws, answers) ==
    \/ \E w \in ws, level \in Levels : ExecuteWorkflow(w, level)
    \/ \E w \in ws, level \in Levels : ExecuteWorkflowWithDelegation(w, level)
    \/ CreateAgentsForWorkflow
    \/ GetOrder
    \/ WaitForDependencies
    \/ Poll
    \/ Retest
    \/ ExecuteStep
    \/ StepFailed
    \/ AdvisorAnswered(answers)
    \/ NextStrategy
    \/ RetryAttempt
    \/ Loop
    \/ DispatchStep
    \/ AgentReturns
    \/ Return
    \/ EndRun

\* the same with the terse advisors
RunSteps(ws) == AdvisedRunSteps(ws, TerseAnswers)

\* the requests for an execution with delegation and the steps of such a run
DelegationRunStepsOn(ws, results) ==
    \/ \E w \in ws, level \in Levels : ExecuteWorkflowWithDelegation(w, level)
    \/ CreateAgentsForWorkflow
    \/ Loop
    \/ DispatchStep
    \/ AgentCallEnds(results)
    \/ Return
    \/ EndRun

DelegationRunSteps(ws) == DelegationRunStepsOn(ws, PlainResults)

\* one workflow that is only executed with delegation
DelegationNext ==
    \/ PlanRequests({"W1"}, Plans)
    \/ DelegationRequests({"W1"})
    \/ DelegationRunSteps({"W1"})

\* one workflow executed with delegation by agents whose actions can end in
\* an error result
ActionsNext ==
    \/ PlanRequests({"W1"}, Plans)
    \/ DelegationRunStepsOn({"W1"}, AgentResults)

\* one workflow with every plan of the planner, executed either way
ExecutionNext ==
    \/ PlanRequests({"W1"}, Plans)
    \/ RunSteps({"W1"})

\* the steps of the coroutine of a run, from its first await to its return
RunProgress ==
    \/ CreateAgentsForWorkflow
    \/ GetOrder
    \/ WaitForDependencies
    \/ Poll
    \/ Retest
    \/ ExecuteStep
    \/ StepFailed
    \/ AdvisorAnswered(TerseAnswers)
    \/ NextStrategy
    \/ RetryAttempt
    \/ Loop
    \/ DispatchStep
    \/ AgentReturns
    \/ Return

\* one workflow, with delegation
EngNext ==
    \/ PlanRequests({"W1"}, Plans)
    \/ DelegationRequests({"W1"})
    \/ RunSteps({"W1"})

\* two workflows with plans of two steps, without delegation
SharedNext ==
    \/ PlanRequests(Workflows, ShortPlans)
    \/ RunSteps(Workflows)

\* the cancellation requests
CancelRequests ==
    \E id \in StoredIds : CancelTask(id)

\* one workflow with a plan of two steps over a store that holds tasks
\* one workflow with a plan of two steps, executed with every advisor
RecoveryNext ==
    \/ PlanRequests({"W1"}, ShortPlans)
    \/ AdvisedRunSteps({"W1"}, AdvisorAnswers)

TaskNext ==
    \/ PlanRequests({"W1"}, ShortPlans)
    \/ RunSteps({"W1"})
    \/ CancelRequests

Init == RegInit /\ EngInit /\ TaskInit(<<>>)

InitStored == RegInit /\ EngInit /\ \E st \in Stores : TaskInit(st)

SpecRegistry == Init /\ [][RegNext]_vars

SpecEngine == Init /\ [][EngNext]_vars

SpecShared == Init /\ [][SharedNext]_vars

SpecDelegation == Init /\ [][DelegationNext]_vars

SpecActions == Init /\ [][ActionsNext]_vars

\* the event loop resumes the coroutine of the run whenever it can go on: a
\* sleep ends, an awaited call of an agent or of the advisor returns
FairExecution == Init /\ [][ExecutionNext]_vars /\ WF_vars(RunProgress)

\* astream runs the next node of the graph whenever there is one: the nodes'
\* awaited calls return
FairGraph == Init /\ [][GraphNext]_vars /\ WF_vars(GraphStep)

SpecTasks == InitStored /\ [][TaskNext]_vars

SpecStatus == Init /\ [][StatusNext]_vars

SpecRecovery == Init /\ [][RecoveryNext]_vars

SpecWorkflows == Init /\ [][WorkflowNext]_vars

(***************************************************************************)
(* Claims about the registry.                                              *)
(***************************************************************************)
Symmetric(conn) ==
    \A a \in AgentIds, b \in AgentIds :
        InBag(b, GetConns(conn, a)) <=> InBag(a, GetConns(conn, b))

\* the connected_agents field of every stored agent, as a read yields it
ConnectedFields == [a \in DOMAIN agents |-> ConnectedAgentsOf(Reg, a)]

\* C1: in every reachable state of the registry the connection graph is
\* symmetric, B is in connections(A) iff A is in connections(B), in the
\* registry's connection lists and in the agents' connected_agents fields.
C1_ConnectionsSymmetric ==
    /\ Symmetric(agent_connections)
    /\ Symmetric(ConnectedFields)

\* C1 witness: an agent was deleted and a connected pair is left
C1_Witness ==
    /\ last.op = "delete_agent" /\ last.ret = "ok"
    /\ \E a \in DOMAIN agent_connections, b \in DOMAIN agent_connections :
          a # b /\ InBag(b, agent_connections[a]) /\ InBag(a, agent_connections[b])

\* id occurs nowhere in the registry
Absent(id) ==
    /\ id \notin DOMAIN agents
    /\ id \notin DOMAIN agent_connections
    /\ \A w \in DOMAIN workflow_agents : ~InList(id, workflow_agents[w])
    /\ \A o \in DOMAIN agent_connections : ~InBag(id, agent_connections[o])
    /\ \A o \in DOMAIN agents : ~InBag(id, ConnectedFields[o])

\* C7: after DeleteAgent(A) on an existing agent, A and every transitive child
\* of A are absent from the registry and from the workflow index, and no
\* remaining agent's connections contain any of them.
C7_DeleteCascades ==
    (last.op = "delete_agent" /\ last.ret = "ok") => \A d \in last.removed : Absent(d)

\* C7 witness: the delete removed an agent with a child, and an agent that was
\* connected to one of the removed agents is still there
C7_Witness ==
    /\ last.op = "delete_agent" /\ last.ret = "ok"
    /\ Cardinality(last.removed) >= 2
    /\ \E o \in last.peers : o \in DOMAIN agents

\* C8: SpawnChild(P) succeeds while len(P.children) < P.max_children and is
\* refused with limit_exceeded otherwise, creating nothing and leaving
\* P.children unchanged; so len(P.children) <= P.max_children always holds.
C8_SpawnLimit ==
    [][ /\ \A p \in DOMAIN agents' :
              Len(agents'[p].child_agents) <= agents'[p].max_child_agents
        /\ \A p \in DOMAIN agents, maxc \in ChildLimits :
              (last'.op = "spawn_child_agent" /\ SpawnChild(p, maxc)) =>
                 IF Len(agents[p].child_agents) < agents[p].max_child_agents
                 THEN /\ last'.ret = "ok"
                      /\ last'.b \in (DOMAIN agents') \ (DOMAIN agents)
                      /\ agents'[p].child_agents = Append(agents[p].child_agents, last'.b)
                 ELSE /\ last'.ret = "limit_exceeded"
                      /\ agents' = agents
                      /\ agent_connections' = agent_connections
                      /\ workflow_agents' = workflow_agents
                      /\ next_id' = next_id ]_vars

\* C8 witness: a spawn was refused on a parent whose children, all spawned
\* successfully, fill its limit
C8_Witness ==
    /\ last.op = "spawn_child_agent" /\ last.ret = "limit_exceeded"
    /\ \E p \in DOMAIN agents :
          /\ agents[p].max_child_agents >= 1
          /\ Len(agents[p].child_agents) = agents[p].max_child_agents
          /\ \A c \in Range(agents[p].child_agents) : c \in DOMAIN agents

\* C9: for two distinct existing agents of one workflow, Connect(a,b) followed
\* by Connect(a,b) succeeds both times, the second call changes no connection,
\* and b is exactly once in connections(a) and a exactly once in connections(b).
C9_ConnectIdempotent ==
    [][ ( /\ last.op = "connect_agents" /\ last.ret = "ok"
          /\ last'.op = "connect_agents"
          /\ Connect(last.a, last.b) ) =>
             /\ last'.ret = "ok"
             /\ agent_connections' = agent_connections
             /\ ConnectedFields' = ConnectedFields
             /\ Count(agent_connections'[last.a], last.b) = 1
             /\ Count(agent_connections'[last.b], last.a) = 1 ]_vars

\* C9 witness: a successful Connect(a,b) right after a successful Connect(a,b)
C9_Witness ==
    /\ last.op = "connect_agents" /\ last.ret = "ok" /\ last.rep
    /\ Count(agent_connections[last.a], last.b) = 1
    /\ Count(agent_connections[last.b], last.a) = 1

\* C10: for two unconnected agents of one workflow, Connect(a,b) followed by
\* Disconnect(a,b) restores the connection graph to what it was before the
\* Connect.
C10_DisconnectInverse ==
    (last.op = "disconnect_agents" /\ last.ret = "ok" /\ before_connect # <<>>) =>
        /\ agent_connections = before_connect
        /\ ConnectedFields = before_connect

\* C10 witness: the Disconnect undid the Connect while another edge exists
C10_Witness ==
    /\ last.op = "disconnect_agents" /\ last.ret = "ok" /\ before_connect # <<>>
    /\ \E c \in DOMAIN agent_connections :
          c \notin {last.a, last.b} /\ agent_connections[c] # EmptyBag

\* C11: Connect(a,b) is refused with not-found (False) exactly when a or b is
\* not in the registry, and with an invalid-request error (AgentConnectionError)
\* exactly when both exist and a = b or their workflows differ; a refused call
\* leaves the registry, and so the connection graph, unchanged.
C11_ConnectRefusals ==
    [][ last'.op = "connect_agents" =>
           /\ last'.ret = "false" <=> last'.args = "unknown"
           /\ last'.ret = "connection_error" <=> last'.args = "invalid"
           /\ last'.ret = "ok" <=> last'.args = "valid"
           /\ last'.ret # "ok" =>
                 /\ agents' = agents
                 /\ agent_connections' = agent_connections
                 /\ workflow_agents' = workflow_agents
                 /\ ConnectedFields' = ConnectedFields ]_vars

\* C11 witness: a Connect was refused as invalid while some pair is connected
C11_Witness ==
    /\ last.op = "connect_agents" /\ last.ret = "connection_error" /\ last.args = "invalid"
    /\ \E c \in DOMAIN agent_connections : agent_connections[c] # EmptyBag

(***************************************************************************)
(* Claims about the engine.  A step is dispatched when the run hands it to *)
(* _execute_step or to _execute_step_with_delegation.                      *)
(***************************************************************************)
\* the dependencies that the steps with this id list in the plan
DepsOf(steps, id) ==
    UNION {steps[i].dependencies : i \in {j \in 1..Len(steps) : steps[j].step_id = id}}

RECURSIVE DepClosure(_, _)
DepClosure(steps, ids) ==
    LET more == ids \cup UNION {DepsOf(steps, x) : x \in ids}
    IN  IF more = ids THEN ids ELSE DepClosure(steps, more)

\* the step ids the step depends on, directly or through other steps
TransitiveDeps(steps, step) == DepClosure(steps, step.dependencies)

Cyclic(steps) == \E i \in 1..Len(steps) : steps[i].step_id \in TransitiveDeps(steps, steps[i])

Dangling(steps) == \E i \in 1..Len(steps) : ~(steps[i].dependencies \subseteq StepIdsOf(steps))

\* step_id is unique within the plan
UniqueIds(steps) ==
    \A i \in 1..Len(steps), j \in 1..Len(steps) : steps[i].step_id = steps[j].step_id => i = j

\* no step of the plan was added by delegation
PlannerOnly(steps) == \A i \in 1..Len(steps) : steps[i].target_agent_id = "absent"

\* a run on a stored plan is under way or has ended
Running == run.kind # "none" /\ run.workflow_id \in DOMAIN workflow_plans

\* the run has returned a result to its caller
Returned == Running /\ run.pc = "done" /\ run.status \notin {"not_found", "raised"}

DispatchedIds == {dispatched[i].step.step_id : i \in 1..Len(dispatched)}

Outcome(id) == IF id \in DOMAIN run.execution_results THEN run.execution_results[id] ELSE "none"

Chain == <<Step("S1", {}), Step("S2", {"S1"}), Step("S3", {"S2"})>>

\* C2: for a plan whose dependencies form a DAG over the plan's own step ids,
\* in ExecuteWorkflow and in ExecuteWorkflowWithDelegation, every step listed in
\* the dependencies of a step has an outcome when that step is dispatched.
C2_DependenciesBeforeDispatch ==
    (Running /\ ~Cyclic(CurrentSteps) /\ ~Dangling(CurrentSteps)) =>
        \A i \in 1..Len(dispatched) :
            \A d \in dispatched[i].step.dependencies : d \in DOMAIN dispatched[i].results

\* C3: a run on a plan, as the planner stored it, with a dependency cycle or a
\* dependency on a step id absent from the plan dispatches no step and ends
\* rejected with UnresolvableDependencies.
C3_UnresolvableRejected ==
    (Running /\ PlannerOnly(CurrentSteps) /\ (Cyclic(CurrentSteps) \/ Dangling(CurrentSteps))) =>
        /\ dispatched = <<>>
        /\ (run.pc = "done" /\ run.status # "raised") => run.status = "unresolvable_dependencies"

\* C4: the status a run returns is "completed" only if every step of the plan's
\* step list at the end of the run has outcome completed, and "failed" if some
\* step failed or was never dispatched.
C4_FinalStatus ==
    Returned =>
        IF \A id \in StepIdsOf(CurrentSteps) : Outcome(id) = "completed"
        THEN run.status \in {"completed", "failed"}
        ELSE run.status = "failed"

\* C5: when a step failed and was not recovered, every step that does not
\* transitively depend on it and whose own dependencies all completed has been
\* dispatched when the run returns.
C5_IndependentBranches ==
    Returned =>
        \A a \in StepIdsOf(CurrentSteps), i \in 1..Len(CurrentSteps) :
            ( /\ Outcome(a) = "failed"
              /\ a # CurrentSteps[i].step_id
              /\ a \notin TransitiveDeps(CurrentSteps, CurrentSteps[i])
              /\ \A d \in CurrentSteps[i].dependencies : Outcome(d) = "completed" )
            => CurrentSteps[i].step_id \in DispatchedIds

\* C6: in a plan with unique step ids no step is dispatched while a step it
\* transitively depends on has outcome failed; and when, for S1, S2 deps={S1},
\* S3 deps={S2}, S2 has failed, S3 is never dispatched and the run returns the
\* status "failed".
C6_FailedBlocksDependents ==
    /\ (Running /\ UniqueIds(CurrentSteps)) =>
          \A i \in 1..Len(dispatched) :
              \A d \in TransitiveDeps(CurrentSteps, dispatched[i].step) :
                  ~(d \in DOMAIN dispatched[i].results /\ dispatched[i].results[d] = "failed")
    /\ (Returned /\ CurrentSteps = Chain /\ Outcome("S2") = "failed") =>
          /\ "S3" \notin DispatchedIds
          /\ run.status = "failed"

\* a step of the run has failed and the except branch of the method is taken on
\* this transition
ExceptBranch ==
    \/ run.pc = "except" /\ run'.pc # "except"
    \/ /\ run.kind = "with_delegation" /\ run.pc \in {"step", "calling"}
       /\ run.queue # <<>>
       /\ Head(run.queue).step_id \in run'.executed_steps \ run.executed_steps
       /\ run'.execution_results[Head(run.queue).step_id] = "failed"

\* C12: when a step fails during a run, the recovery coordinator is invoked
\* if and only if the level of the run is ADAPTIVE, INTELLIGENT or AUTONOMOUS;
\* at BASIC it is not invoked and the outcome of the step is FAILED.
C12_RecoveryGatedByLevel ==
    [][ ExceptBranch =>
          IF run.level \in RecoveryLevels
          THEN run'.pc = "recovering"
          ELSE /\ run'.pc # "recovering"
               /\ run'.execution_results[Head(run.queue).step_id] = "failed" ]_vars

\* C13: every attempt on a step is recorded in the step's TaskExecution: each
\* step the run has handed to _execute_step has a record of this workflow that
\* has left PENDING.
C13_AttemptsRecorded ==
    run.kind = "execute_workflow" =>
       \A i \in 1..Len(dispatched) :
          LET id == dispatched[i].step.step_id
          IN  /\ id \in DOMAIN task_executions
              /\ task_executions[id].workflow_id = run.workflow_id
              /\ task_executions[id].status # "pending"

\* C14: when recovery fails, because the advisor call fails or because no
\* strategy applies, the step keeps its failure as its outcome and
\* execute_workflow goes on to return a result with status failed; no exception
\* reaches the caller.
C14_RecoveryFailureContained ==
    [][ run.pc \in RecoveryPcs /\ run'.pc \notin RecoveryPcs =>
           /\ run'.pc = "return"
           /\ run'.execution_results[Head(run.queue).step_id] = "failed"
           /\ WorkflowResult(run'.execution_results) = "failed" ]_vars

\* the record of the newest dispatch
LastDispatch == dispatched[Len(dispatched)]

\* C15: a step that the agent executing S1 delegates with dependencies {S1} is
\* not dispatched by the run before the outcome of S1 is COMPLETED, and a
\* delegated step stays in the step list of its plan to the end of the run.
C15_DelegatedStepWaits ==
    [][ /\ \A w \in DOMAIN workflow_plans :
              \A s \in Range(workflow_plans[w]) :
                 s.delegating_agent_id # "absent" =>
                    w \in DOMAIN workflow_plans' /\ s \in Range(workflow_plans'[w])
        /\ (run'.kind = "with_delegation" /\ Len(dispatched') > Len(dispatched)) =>
              LET d == LastDispatch'
              IN  d.step.delegating_agent_id = "S1" =>
                     \A dep \in d.step.dependencies :
                        dep \in DOMAIN d.results /\ d.results[dep] = "completed" ]_vars

\* C15 witness: a run has returned in which D1, delegated to X by the agent
\* executing S1 with dependencies {S1}, was dispatched after S1 completed and
\* is in the plan
C15_Witness ==
    /\ Returned /\ run.kind = "with_delegation"
    /\ \E i \in 1..Len(dispatched) :
          /\ dispatched[i].step = [step_id |-> "D1", dependencies |-> {"S1"},
                                    target_agent_id |-> "X", delegating_agent_id |-> "S1"]
          /\ dispatched[i].results["S1"] = "completed"
          /\ dispatched[i].step \in Range(CurrentSteps)
          /\ \E j \in 1..(i - 1) : dispatched[j].step.step_id = "S1"

\* C16: a delegated step whose step_id is used by a step of the plan is
\* rejected, so the step ids of every stored plan are unique after any sequence
\* of delegations.
C16_StepIdsUnique ==
    \A w \in DOMAIN workflow_plans : UniqueIds(workflow_plans[w])

\* the ids under which the agents of the registry are named as targets
AgentNames == <<"X", "Y", "Z", "V">>

\* the target is an agent of the registry that belongs to the workflow
TargetRegistered(target, w) ==
    \E a \in DOMAIN agents : AgentNames[a] = target /\ agents[a].workflow_id = w

\* C17: a delegation is accepted only if its target agent is in the registry
\* and belongs to the workflow, so every delegated step of a stored plan names
\* such an agent.
C17_DelegationValidated ==
    \A w \in DOMAIN workflow_plans :
       \A s \in Range(workflow_plans[w]) :
          s.target_agent_id # "absent" => TargetRegistered(s.target_agent_id, w)

\* how far a run with delegation is from its return: the iterations it may
\* still start, the steps left in the for loop, and the place in the loop body
PcRank(pc) ==
    CASE pc = "agents" -> 5
      [] pc = "step" -> 4
      [] pc = "calling" -> 3
      [] pc = "loop" -> 2
      [] pc = "return" -> 1
      [] OTHER -> 0

Measure(r) == <<max_iterations - r.iteration, Len(r.queue), PcRank(r.pc)>>

Less(m, n) ==
    \/ m[1] < n[1]
    \/ m[1] = n[1] /\ m[2] < n[2]
    \/ m[1] = n[1] /\ m[2] = n[2] /\ m[3] < n[3]

StatusRank(status) ==
    CASE status = "pending" -> 0
      [] status = "running" -> 1
      [] status \in {"completed", "failed"} -> 2
      [] status = "cancelled" -> 3

WorkflowCancelled ==
    /\ Running /\ run.pc # "done"
    /\ StepIdsOf(CurrentSteps) \subseteq DOMAIN cancels

\* C20: after a workflow is cancelled none of its TaskExecutions is RUNNING or
\* PENDING and the engine dispatches no further step of the workflow.
C20_CancelStopsWorkflow ==
    [][ WorkflowCancelled =>
          /\ \A id \in DOMAIN task_executions :
                (id \in StepIdsOf(CurrentSteps) /\ task_executions[id].workflow_id = run.workflow_id)
                   => task_executions[id].status \notin {"running", "pending"}
          /\ Len(dispatched') <= Len(dispatched) ]_vars

\* C21: cancel_task(id) returns True exactly when id is in the running set; it
\* then removes id from the running set and sets the status of its record to
\* CANCELLED, and leaves every other record alone; for any other id it returns
\* False and changes neither the records, nor the running set, nor the store.
C21_CancelTask ==
    [][ \A id \in StoredIds :
           CancelTask(id) =>
              /\ cancels'[id] <=> id \in LoadedRunning
              /\ cancels'[id] =>
                    /\ running_tasks' = LoadedRunning \ {id}
                    /\ DOMAIN task_executions' = DOMAIN LoadedExecutions
                    /\ task_executions'[id].status = "cancelled"
                    /\ \A other \in DOMAIN LoadedExecutions \ {id} :
                          task_executions'[other] = LoadedExecutions[other]
              /\ ~cancels'[id] =>
                    /\ running_tasks' = LoadedRunning
                    /\ task_executions' = LoadedExecutions
                    /\ store' = store ]_vars

\* C21 witness: one call has cancelled a running task and another call, for a
\* task that is pending or unknown, has returned False
C21_Witness ==
    /\ \E id \in DOMAIN cancels :
          /\ cancels[id]
          /\ id \notin running_tasks
          /\ task_executions[id].status = "cancelled"
    /\ \E id \in DOMAIN cancels : ~cancels[id]

\* the AgentResponse that the last call returned, if it was a spawn: the only
\* place where spawn_child_agent writes parent_agent_id
SpawnResponse ==
    IF last.op = "spawn_child_agent" /\ last.ret = "ok"
    THEN [id |-> last.b, parent_agent_id |-> last.a]
    ELSE [id |-> None, parent_agent_id |-> None]

\* the pairs <<agent, parent_agent_id>> of the stored agents and of the response
ParentLinks ==
    {<<a, agents[a].parent_agent_id>> : a \in DOMAIN agents}
       \cup {<<SpawnResponse.id, SpawnResponse.parent_agent_id>>}

\* C22: whenever an agent has parent_agent_id P, P is in the registry and the
\* child_agents of P contains the id of the agent.
C22_ParentListsChild ==
    \A l \in ParentLinks :
       l[2] # None => l[2] \in DOMAIN agents /\ InList(l[1], agents[l[2]].child_agents)

\* C22 witness: a child has just been spawned and is in the registry, while
\* another agent has a child too
C22_Witness ==
    /\ SpawnResponse.parent_agent_id # None
    /\ SpawnResponse.id \in DOMAIN agents
    /\ \E a \in DOMAIN agents : Len(agents[a].child_agents) >= 1 /\ a # SpawnResponse.parent_agent_id

(***************************************************************************)
(* Claims about the agents' status.                                        *)
(***************************************************************************)

CannedPhrase(s) ==
    CASE s = "idle" -> "Agent is idle and ready for tasks"
      [] s = "running" -> "Agent is actively processing tasks"
      [] s = "paused" -> "Agent is paused and not processing tasks"
      [] s = "error" -> "Agent encountered an error"
      [] s = "completed" -> "Agent has completed all assigned tasks"
      [] s = "busy" -> "Agent status changed to busy"

\* C24: update_agent_status on an existing agent returns the agent for every
\* new status of the enumeration, whatever the current status is, stores the
\* new status, and stores the canned phrase of that status when the caller
\* gives no description (the caller's description otherwise).
C24_UpdateStatus ==
    [][ \A a \in StatusCallers, s \in AgentStatuses, d \in Descriptions :
            (UpdateStatus(a, s, d) /\ a \in DOMAIN agents) =>
                /\ last'.ret = "ok"
                /\ last'.old_status = agents[a].status
                /\ agents'[a].status = s
                /\ agents'[a].status_description = IF d = "" THEN CannedPhrase(s) ELSE d ]_vars

\* an agent that had completed was moved back to busy, a status without an
\* entry in default_descriptions, with no description given
C24_Witness ==
    /\ last.op = "update_agent_status"
    /\ last.ret = "ok"
    /\ last.old_status = "completed"
    /\ last.status = "busy"
    /\ last.description = ""
    /\ agents[last.a].status = "busy"
    /\ agents[last.a].status_description = "Agent status changed to busy"

\* C26: disconnect_agents returns False or True; it returns True only for a
\* pair that was connected in some direction, and a call that returns False,
\* as the call for two registered agents that are not connected does, leaves
\* every agent and every connection list as it was.
C26_DisconnectUnconnected ==
    [][ last'.op = "disconnect_agents" =>
            /\ last'.ret \in {"false", "ok"}
            /\ last'.ret = "ok" =>
                   /\ {last'.a, last'.b} \subseteq DOMAIN agents
                   /\ \/ InBag(last'.b, GetConns(agent_connections, last'.a))
                      \/ InBag(last'.a, GetConns(agent_connections, last'.b))
            /\ last'.ret = "false" =>
                   /\ agent_connections' = agent_connections
                   /\ agents' = agents ]_vars

\* every agent id is registered, no two agents are connected, and the last
\* call, a disconnect_agents, returned False
C26_Witness ==
    /\ last.op = "disconnect_agents"
    /\ last.ret = "false"
    /\ DOMAIN agents = AgentIds
    /\ \A a \in AgentIds : GetConns(agent_connections, a) = EmptyBag
    /\ \A a \in AgentIds : agents[a].connected_agents = EmptyBag

(***************************************************************************)
(* Claims about the workflow service.                                      *)
(***************************************************************************)

\* C27: after a workflow was deleted, no agent of that workflow is left in
\* the registry (a lookup of it reports not found) and no connection list is
\* kept for such an agent or mentions one.
C27_WorkflowDeletionRemovesAgents ==
    (last.op = "delete_workflow" /\ last.ret = "ok") =>
        /\ \A a \in DOMAIN agents : agents[a].workflow_id # last.args
        /\ GetList(workflow_agents, last.args) = <<>>
        /\ \A o \in DOMAIN agent_connections : o \in DOMAIN agents

(***************************************************************************)
(* Claims about the durable store.                                         *)
(***************************************************************************)

StrategyAtWork ==
    IF run.pc = "retrying" THEN "retry_with_backoff"
    ELSE IF run.pc = "strategies" /\ run.recovery.strategies # <<>>
         THEN Head(run.recovery.strategies)
         ELSE "none"

\* the strategies of the advisor's list that come after the one at work
StrategiesLeft ==
    IF run.pc = "retrying" THEN run.recovery.strategies
    ELSE IF run.pc = "strategies" /\ run.recovery.strategies # <<>>
         THEN Tail(run.recovery.strategies)
         ELSE <<>>

\* the recovery ends with this step
RecoveryEnds == run.pc \in RecoveryPcs /\ run'.pc \notin RecoveryPcs

\* C28: a retry_with_backoff recovery makes at most max_retries attempts on
\* the step; an attempt on which the agent succeeds ends the retry, and the
\* step gets that success as its outcome; after a failed attempt that is not
\* the last one the next attempt follows, and after the last one the recovery
\* ends with the step failed.
C28_RetryWithBackoff ==
    [][ run.pc = "retrying" =>
          LET rec == run.recovery
              id == Head(run.queue).step_id
          IN  /\ rec.attempt < rec.max_retries
              /\ IF rec.agent = "succeeds"
                 THEN /\ run'.pc \notin RecoveryPcs
                      /\ id \in DOMAIN run'.execution_results
                      /\ run'.execution_results[id] = "completed"
                 ELSE IF rec.attempt < rec.max_retries - 1
                 THEN /\ run'.pc = "retrying"
                      /\ run'.recovery.attempt = rec.attempt + 1
                 ELSE /\ run'.pc \notin RecoveryPcs
                      /\ id \in DOMAIN run'.execution_results
                      /\ run'.execution_results[id] = "failed" ]_vars

\* C29: when a recovery ends in a strategy that runs the step again on an
\* agent that succeeds, the success becomes the outcome of the step, no
\* exception leaves the run, and the for loop goes on with the steps that
\* follow in the order.
C29_RecoveredStepContinues ==
    [][ ( /\ RecoveryEnds
          /\ run.recovery.agent = "succeeds"
          /\ \/ StrategyAtWork = "modify_and_retry"
             \/ StrategyAtWork = "retry_with_backoff" /\ run.recovery.max_retries > 0 ) =>
             /\ run'.status # "raised"
             /\ Head(run.queue).step_id \in DOMAIN run'.execution_results
             /\ run'.execution_results[Head(run.queue).step_id] # "failed"
             /\ run'.queue = Tail(run.queue)
             /\ run'.pc = IF Tail(run.queue) = <<>> THEN "return" ELSE "wait" ]_vars

\* C30: when a recovery on a failing agent gives up, leaving the step failed,
\* no applicable strategy is left in the advisor's list after the one that
\* failed last.
C30_EveryStrategyTried ==
    [][ ( /\ RecoveryEnds
          /\ run.pc # "recovering"
          /\ run.recovery.agent = "fails"
          /\ run'.status # "raised" ) =>
             \A i \in 1..Len(StrategiesLeft) : ~Applicable(StrategiesLeft[i]) ]_vars

(***************************************************************************)
(* Claims about the task records during a run.                             *)
(***************************************************************************)

DispatchedToTarget(step) ==
    \E i \in 1..Len(dispatched) :
       /\ dispatched[i].step = step
       /\ ExecutingAgent(step, run.step_agents) = step.target_agent_id

\* the outcome of every dependency of the step is completed
DependenciesCompleted(step) ==
    \A dep \in step.dependencies :
       dep \in DOMAIN run.execution_results /\ run.execution_results[dep] = "completed"

\* C32: when a run with delegation has returned before its iteration bound,
\* every step that an agent of a run delegated and whose dependencies all
\* completed in this run was dispatched in this run, to its target agent.
C32_DelegatedStepPickedUp ==
    (Returned /\ run.kind = "with_delegation" /\ run.iteration < max_iterations) =>
       \A s \in Range(CurrentSteps) :
          (s.delegating_agent_id \notin {"absent", "none"} /\ DependenciesCompleted(s)) =>
             DispatchedToTarget(s)

\* get_task_status: the status that the query reports for a task
GetTaskStatus(id) ==
    IF id \in DOMAIN LoadedExecutions THEN LoadedExecutions[id].status ELSE "not_found"

\* C33: a status that get_task_status reports for a task is the status that
\* the durable store holds for that task: no query observes a status that has
\* not been saved.
C33_SavedBeforeVisible ==
    \A id \in StoredIds :
       GetTaskStatus(id) # "not_found" =>
          /\ id \in DOMAIN store
          /\ store[id].status = GetTaskStatus(id)

(***************************************************************************)
(* Claims about the status of a workflow.                                  *)
(***************************************************************************)
\* the statuses a step can be reported with
ReportedStatuses == {"pending", "running", "completed", "failed", "cancelled"}

\* the values of a dict
Values(d) == {d[k] : k \in DOMAIN d}

\* _calculate_workflow_status with the tests for running and cancelled swapped
CalculateRunningFirst(step_statuses) ==
    LET statuses == Values(step_statuses)
    IN  IF \E status \in statuses : status = "failed" THEN "failed"
        ELSE IF \E status \in statuses : status = "running" THEN "running"
        ELSE IF \E status \in statuses : status = "cancelled" THEN "cancelled"
        ELSE IF \A status \in statuses : status = "completed" THEN "completed"
        ELSE "pending"

\* _calculate_workflow_status
CalculateWorkflowStatus(step_statuses) ==
    LET statuses == Values(step_statuses)
    IN  IF \E status \in statuses : status = "failed" THEN "failed"
        ELSE IF \E status \in statuses : status = "cancelled" THEN "cancelled"
        ELSE IF \E status \in statuses : status = "running" THEN "running"
        ELSE IF \A status \in statuses : status = "completed" THEN "completed"
        ELSE "pending"

\* the loop of get_workflow_status over the steps of the plan
StepStatuses(steps) ==
    [id \in StepIdsOf(steps) |->
        IF id \in DOMAIN LoadedExecutions THEN LoadedExecutions[id].status ELSE "pending"]

\* get_workflow_status
GetWorkflowStatus(w) ==
    IF w \notin DOMAIN workflow_plans
    THEN [status |-> "not_found"]
    ELSE [workflow_id |-> w,
          steps |-> StepStatuses(workflow_plans[w]),
          overall_status |-> CalculateWorkflowStatus(StepStatuses(workflow_plans[w]))]

\* the overall status as the rule orders it
RuleStatus(statuses) ==
    CASE "failed" \in statuses -> "failed"
      [] "failed" \notin statuses /\ "cancelled" \in statuses -> "cancelled"
      [] {"failed", "cancelled"} \cap statuses = {} /\ "running" \in statuses -> "running"
      [] {"failed", "cancelled", "running"} \cap statuses = {} /\ statuses \subseteq {"completed"} -> "completed"
      [] OTHER -> "pending"

\* C34: get_workflow_status reports a plan step without a record as pending
\* and a step with a record with the status of the record, and the overall
\* status is failed if any step is failed, else cancelled if any is cancelled,
\* else running if any is running, else completed if all are completed, else
\* pending; the same holds of the calculation for every dict of statuses.
C34_WorkflowStatus ==
    /\ \A w \in DOMAIN workflow_plans :
          LET answer == GetWorkflowStatus(w)
          IN  /\ DOMAIN answer.steps = StepIdsOf(workflow_plans[w])
              /\ \A id \in DOMAIN answer.steps :
                    /\ id \notin DOMAIN LoadedExecutions => answer.steps[id] = "pending"
                    /\ id \in DOMAIN LoadedExecutions => answer.steps[id] = LoadedExecutions[id].status
              /\ answer.overall_status = RuleStatus(Values(answer.steps))
    /\ \A ids \in SUBSET StoredIds : \A step_statuses \in [ids -> ReportedStatuses] :
          CalculateWorkflowStatus(step_statuses) = RuleStatus(Values(step_statuses))

\* C34 witness: a plan with a cancelled step and a step that has no record
\* or is running, reported as cancelled
C34_Witness ==
    \E w \in DOMAIN workflow_plans :
       LET answer == GetWorkflowStatus(w)
       IN  /\ answer.overall_status = "cancelled"
           /\ \E id \in DOMAIN answer.steps : id \notin DOMAIN LoadedExecutions
           /\ \E id \in DOMAIN answer.steps : answer.steps[id] = "cancelled"

(***************************************************************************)
(* Claims about the result of the agent's action.                          *)
(***************************************************************************)
\* C35: a step whose agent call returned an error result has the outcome
\* failed, so that it is not recorded as completed, and no step that depends
\* on it is dispatched afterwards.
C35_ErrorResultFails ==
    \A i \in 1..Len(dispatched) :
       LET id == dispatched[i].step.step_id
       IN  (dispatched[i].result = "error" /\ id \in DOMAIN run.execution_results) =>
              /\ run.execution_results[id] = "failed"
              /\ \A j \in (i + 1)..Len(dispatched) : id \notin dispatched[j].step.dependencies

(***************************************************************************)
(* Claims about the end of execute_workflow.                               *)
(***************************************************************************)
\* C36: every run of execute_workflow on a stored plan returns or raises,
\* also when the plan has a dependency cycle or a dependency on a step id
\* that is in no plan, given that every awaited call returns.
C36_ExecuteWorkflowTerminates ==
    [](run.kind = "execute_workflow" => <>(run.pc = "done"))

(***************************************************************************)
(* Claims about workflows whose plans use the same step ids.               *)
(***************************************************************************)
\* the step is a request for, or a step of a run of, another workflow than v
ActsOnOther(v) ==
    /\ workflow_plans'[v] = workflow_plans[v]
    /\ run.workflow_id # v
    /\ run'.workflow_id # v

\* C37: a request for one workflow, or a step of its run, changes neither the
\* dependencies that the ordering of another workflow's plan reads for its
\* steps nor the statuses that get_workflow_status reports for that plan.
C37_NoInterference ==
    [][ \A v \in DOMAIN workflow_plans :
           ActsOnOther(v) =>
              /\ \A id \in StepIdsOf(workflow_plans[v]) :
                    GetDeps(task_dependencies', id) = GetDeps(task_dependencies, id)
              /\ GetExecutionOrder(workflow_plans[v], task_dependencies')
                    = GetExecutionOrder(workflow_plans[v], task_dependencies)
              /\ GetWorkflowStatus(v)' = GetWorkflowStatus(v) ]_vars

(***************************************************************************)
(* Claims about the children lists of the registry.                        *)
(***************************************************************************)
\* C38: every id in the child_agents of an agent of the registry is the id of
\* an agent of the registry, so that a deleted child is in no children list
\* and does not count toward its parent's limit.
C38_ChildrenExist ==
    \A a \in DOMAIN agents :
       \A c \in Range(agents[a].child_agents) : c \in DOMAIN agents

(***************************************************************************)
(* Claims about the dispatches of one run with delegation.                 *)
(***************************************************************************)
\* how often the step is in the list
Occurrences(list, step) == Cardinality({i \in 1..Len(list) : list[i] = step})

\* the steps that the run has dispatched so far
DispatchedSteps == [i \in 1..Len(dispatched) |-> dispatched[i].step]

C40_GraphCompletes ==
    [](graph.node = "planning" => <>(graph.node = "complete"))
====
